---- MODULE Spec2Model ----
(***************************************************************************)
(* Instagram caption preprocessing: the sentence/hashtag tokenizer         *)
(* (split_sentences), the post transformer (transform_raw,                 *)
(* transform_raw_csv) and the statement/context cuts of the Streamlit      *)
(* page.  Strings are sequences of one-character strings.                  *)
(***************************************************************************)
EXTENDS Integers, Sequences, FiniteSets, TLC

\* ------------------------------------------------------------------------
\* Bounds
\* ------------------------------------------------------------------------
\* longest caption enumerated for the tokenizer
MaxLen == 4

\* most rows in an uploaded file
MaxRows == 3

\* ------------------------------------------------------------------------
\* Characters
\* ------------------------------------------------------------------------
\* the characters captions are enumerated over: two word characters, the two
\* whitespace characters, two sentence terminators, '#', and a character that
\* is neither a word character nor whitespace nor punctuation
Alphabet == {"a", "b", " ", "\n", ".", "!", "#", "-"}

\* \s
IsSpace(c) == c \in {" ", "\n", "\t"}

\* [.!?]
IsPunct(c) == c \in {".", "!", "?"}

\* \w
IsWord(c) == ~IsSpace(c) /\ ~IsPunct(c) /\ c \notin {"#", "-", "<NaN>"}

\* [^#.!?]
IsOther(c) == c \notin {"#", ".", "!", "?"}

InClass(cls, c) ==
    CASE cls = "word"  -> IsWord(c)
      [] cls = "punct" -> IsPunct(c)
      [] cls = "other" -> IsOther(c)
      [] cls = "space" -> IsSpace(c)

\* the missing value pandas puts in an empty CSV cell (float nan)
NaN == <<"<NaN>">>

\* str(x) as the transformers apply it to a cell
str(x) == IF x = NaN THEN <<"n", "a", "n">> ELSE x

\* ------------------------------------------------------------------------
\* String helpers
\* ------------------------------------------------------------------------
SetMin(S) == CHOOSE x \in S : \A y \in S : x <= y

SetMax(S) == CHOOSE x \in S : \A y \in S : x >= y

\* s.replace("\n", " ")
replace_newline(s) == [i \in 1..Len(s) |-> IF s[i] = "\n" THEN " " ELSE s[i]]

\* s.strip()
strip(s) ==
    LET keep == {i \in 1..Len(s) : ~IsSpace(s[i])}
    IN  IF keep = {} THEN <<>> ELSE SubSeq(s, SetMin(keep), SetMax(keep))

\* _WORD_RE.search(s)
has_word_any(s) == s # <<>>

has_word(s) == \E i \in 1..Len(s) : IsWord(s[i])

\* _PUNCT_RE.fullmatch(tok)
punct_fullmatch(tok) == tok # <<>> /\ \A i \in 1..Len(tok) : IsPunct(tok[i])

\* end of the greedy run of characters of class cls that starts at i
RunEnd(s, i, cls) ==
    CHOOSE j \in i..Len(s) :
        /\ \A n \in i..j : InClass(cls, s[n])
        /\ (j = Len(s) \/ ~InClass(cls, s[j + 1]))

RECURSIVE Concat(_)
Concat(ss) == IF ss = <<>> THEN <<>> ELSE Head(ss) \o Concat(Tail(ss))

\* [s.strip() for s in ss]
MapStrip(ss) == [i \in 1..Len(ss) |-> strip(ss[i])]

\* ------------------------------------------------------------------------
\* re.findall(r"#\w+|[.!?]+|[^#.!?]+", text)
\* ------------------------------------------------------------------------
RECURSIVE findall_from(_, _)
findall_from(s, i) ==
    IF i > Len(s) THEN <<>>
    ELSE IF s[i] = "#" /\ i < Len(s) /\ IsWord(s[i + 1])
         THEN LET j == RunEnd(s, i + 1, "word")
              IN  <<SubSeq(s, i, j)>> \o findall_from(s, j + 1)
    ELSE IF IsPunct(s[i])
         THEN LET j == RunEnd(s, i, "punct")
              IN  <<SubSeq(s, i, j)>> \o findall_from(s, j + 1)
    ELSE IF IsOther(s[i])
         THEN LET j == RunEnd(s, i, "other")
              IN  <<SubSeq(s, i, j)>> \o findall_from(s, j + 1)
    \* a '#' not followed by a word character matches no alternative:
    \* the scanner moves on one character and the '#' is in no token
    ELSE findall_from(s, i + 1)

findall(s) == findall_from(s, 1)

\* ------------------------------------------------------------------------
\* re.split(r"(?<=[.!?])\s+", buffer)
\* ------------------------------------------------------------------------
RECURSIVE re_split_from(_, _, _)
re_split_from(s, start, i) ==
    IF i > Len(s) THEN <<SubSeq(s, start, Len(s))>>
    ELSE IF i > 1 /\ IsPunct(s[i - 1]) /\ IsSpace(s[i])
         THEN LET j == RunEnd(s, i, "space")
              IN  <<SubSeq(s, start, i - 1)>> \o re_split_from(s, j + 1, j + 1)
    ELSE re_split_from(s, start, i + 1)

re_split(s) == re_split_from(s, 1, 1)

\* [s.strip() for s in re.split(..., buffer) if _WORD_RE.search(s)]
flush(buf) == MapStrip(SelectSeq(re_split(buf), has_word))

\* ------------------------------------------------------------------------
\* The loop body of split_sentences, one branch per token class
\* ------------------------------------------------------------------------
hashtag_branch_noflush(sents, buf, tok) ==
    [sentences |-> Append(sents, strip(tok)), buffer |-> buf]

hashtag_branch_noreset(sents, buf, tok) ==
    IF strip(buf) # <<>>
    THEN [sentences |-> Append(sents \o flush(buf), strip(tok)), buffer |-> buf]
    ELSE [sentences |-> Append(sents, strip(tok)), buffer |-> buf]

hashtag_branch(sents, buf, tok) ==
    IF strip(buf) # <<>>
    THEN [sentences |-> Append(sents \o flush(buf), strip(tok)), buffer |-> <<>>]
    ELSE [sentences |-> Append(sents, strip(tok)), buffer |-> buf]

punct_branch(sents, buf, tok) == [sentences |-> sents, buffer |-> buf \o tok]

other_branch(sents, buf, tok) == [sentences |-> sents, buffer |-> buf \o tok]

loop_body(sents, buf, tok) ==
    IF tok[1] = "#" THEN hashtag_branch(sents, buf, tok)
    ELSE IF punct_fullmatch(tok) THEN punct_branch(sents, buf, tok)
    ELSE other_branch(sents, buf, tok)

trailing_flush_none(sents, buf) == sents

trailing_flush(sents, buf) ==
    IF strip(buf) # <<>> THEN sents \o flush(buf) ELSE sents

final_prune(sents) == SelectSeq(sents, has_word)

RECURSIVE run_loop(_, _, _, _)
run_loop(toks, n, sents, buf) ==
    IF n > Len(toks) THEN final_prune(trailing_flush(sents, buf))
    ELSE LET r == loop_body(sents, buf, toks[n])
         IN  run_loop(toks, n + 1, r.sentences, r.buffer)

\* split_sentences as the transformers call it
split_sentences(t) ==
    IF t = <<>> THEN <<>>
    ELSE run_loop(findall(strip(replace_newline(t))), 1, <<>>, <<>>)

\* ------------------------------------------------------------------------
\* Data frames: a sequence of rows and the sequence of column names
\* ------------------------------------------------------------------------
CanonicalColumns == <<"ID", "Context", "Sentence ID", "Statement">>

\* the orders list(expected) can give: expected is a set of strings, whose
\* iteration order changes from one interpreter run to the next
ColumnOrders ==
    {p \in [1..4 -> {"ID", "Context", "Sentence ID", "Statement"}] :
        \A a, b \in 1..4 : a # b => p[a] # p[b]}

\* the rows one post contributes: enumerate(sents, 1)
post_rows_from0(r) ==
    LET sents == split_sentences(str(r.caption))
    IN  [idx \in 1..Len(sents) |->
            [ID |-> r.shortcode, Context |-> r.caption,
             SentenceID |-> idx - 1, Statement |-> sents[idx]]]

post_rows(r) ==
    LET sents == split_sentences(str(r.caption))
    IN  [idx \in 1..Len(sents) |->
            [ID |-> r.shortcode, Context |-> r.caption,
             SentenceID |-> idx, Statement |-> sents[idx]]]

\* pd.DataFrame(rows): the columns are the keys of the row dicts, and there
\* are none when there is no row
DataFrameColumns(rs) == IF rs = <<>> THEN <<>> ELSE CanonicalColumns

RECURSIVE SortedSeq(_)
SortedSeq(S) ==
    IF S = {} THEN <<>> ELSE <<SetMin(S)>> \o SortedSeq(S \ {SetMin(S)})

\* the keys of df.groupby("ID", sort=False), in order of first appearance
group_keys(df) ==
    LET firsts == {i \in 1..Len(df) : \A j \in 1..(i - 1) : df[j].ID # df[i].ID}
        order  == SortedSeq(firsts)
    IN  [g \in 1..Len(order) |-> df[order[g]].ID]

RECURSIVE group_rows(_, _)
group_rows(df, id) ==
    IF df = <<>> THEN <<>>
    ELSE IF Head(df).ID = id THEN <<Head(df)>> \o group_rows(Tail(df), id)
    ELSE group_rows(Tail(df), id)

\* " ".join(ss)
RECURSIVE join(_)
join(ss) ==
    IF ss = <<>> THEN <<>>
    ELSE IF Len(ss) = 1 THEN ss[1]
    ELSE ss[1] \o <<" ">> \o join(Tail(ss))

\* the "first" aggregation of a group's Context: pandas takes the first
\* value that is not missing
RECURSIVE first(_)
first(grp) ==
    IF grp = <<>> THEN NaN
    ELSE IF Head(grp).Context # NaN THEN Head(grp).Context
    ELSE first(Tail(grp))

Statements(grp) == [j \in 1..Len(grp) |-> grp[j].Statement]

\* groupby("ID", sort=False).agg({"Context": "first", "Statement": " ".join})
\* .reset_index(), then "Sentence ID" = 1
groupby_agg(df) ==
    LET ids == group_keys(df)
    IN  [g \in 1..Len(ids) |->
            LET grp == group_rows(df, ids[g])
            IN  [ID |-> ids[g], Context |-> first(grp),
                 SentenceID |-> 1, Statement |-> join(Statements(grp))]]

\* the contexts list of add_context_cols: group after group
rolling_contexts(df) ==
    LET ids == group_keys(df)
    IN  Concat([g \in 1..Len(ids) |->
            LET stmts == Statements(group_rows(df, ids[g]))
            IN  [j \in 1..Len(stmts) |-> join(SubSeq(stmts, 1, j))]])

\* df_out["Context"] = contexts: the list is assigned by position
add_context_cols(df) ==
    LET contexts == rolling_contexts(df)
    IN  [i \in 1..Len(df) |-> [df[i] EXCEPT !.Context = contexts[i]]]

\* ------------------------------------------------------------------------
\* State
\* ------------------------------------------------------------------------
\* one call of split_sentences
VARIABLES caption, text, tokens, k, buffer, sentences, pc

\* one run of instagram_preprocess.py or of the Streamlit page on a file
VARIABLES program, data_type, statement_cut, context_cut, df_in, rows, ri,
          df_proc, columns, ppc

tvars == <<caption, text, tokens, k, buffer, sentences, pc>>

pvars == <<program, data_type, statement_cut, context_cut, df_in, rows, ri,
           df_proc, columns, ppc>>

vars == <<tvars, pvars>>

TokIdle ==
    /\ caption = <<>>
    /\ text = <<>>
    /\ tokens = <<>>
    /\ k = 1
    /\ buffer = <<>>
    /\ sentences = <<>>
    /\ pc = "idle"

PipeIdle ==
    /\ program = "none"
    /\ data_type = "none"
    /\ statement_cut = "sentence"
    /\ context_cut = "whole"
    /\ df_in = <<>>
    /\ rows = <<>>
    /\ ri = 1
    /\ df_proc = <<>>
    /\ columns = <<>>
    /\ ppc = "idle"

RECURSIVE StringsUpTo(_)
StringsUpTo(n) ==
    IF n = 0 THEN {<<>>}
    ELSE LET shorter == StringsUpTo(n - 1)
         IN  shorter \cup
             {Append(s, c) : s \in {x \in shorter : Len(x) = n - 1}, c \in Alphabet}

\* "Love this #vibe so much"
LoveThis ==
    <<"L","o","v","e"," ","t","h","i","s"," ","#","v","i","b","e"," ","s","o"," ","m","u","c","h">>

\* "Great day! #sunny #fun"
GreatDay ==
    <<"G","r","e","a","t"," ","d","a","y","!"," ","#","s","u","n","n","y"," ","#","f","u","n">>

\* "... !!! ???"
PunctOnly == <<".",".","."," ","!","!","!"," ","?","?","?">>

Examples == {LoveThis, GreatDay, PunctOnly}

TokInit ==
    /\ caption \in StringsUpTo(MaxLen) \cup Examples
    /\ text = caption
    /\ tokens = <<>>
    /\ k = 1
    /\ buffer = <<>>
    /\ sentences = <<>>
    /\ pc = "start"
    /\ PipeIdle

\* if not text: return []
ReturnEmpty ==
    /\ pc = "start"
    /\ text = <<>>
    /\ pc' = "done"
    /\ UNCHANGED <<caption, text, tokens, k, buffer, sentences, pvars>>

\* text = text.replace("\n", " ").strip(); tokens = re.findall(...)
Normalize ==
    /\ pc = "start"
    /\ text # <<>>
    /\ text' = strip(replace_newline(text))
    /\ tokens' = findall(text')
    /\ pc' = "loop"
    /\ UNCHANGED <<caption, k, buffer, sentences, pvars>>

HashtagTok ==
    /\ pc = "loop"
    /\ k <= Len(tokens)
    /\ tokens[k][1] = "#"
    /\ LET r == hashtag_branch(sentences, buffer, tokens[k])
       IN  sentences' = r.sentences /\ buffer' = r.buffer
    /\ k' = k + 1
    /\ UNCHANGED <<caption, text, tokens, pc, pvars>>

PunctTok ==
    /\ pc = "loop"
    /\ k <= Len(tokens)
    /\ tokens[k][1] # "#"
    /\ punct_fullmatch(tokens[k])
    /\ LET r == punct_branch(sentences, buffer, tokens[k])
       IN  sentences' = r.sentences /\ buffer' = r.buffer
    /\ k' = k + 1
    /\ UNCHANGED <<caption, text, tokens, pc, pvars>>

OtherTok ==
    /\ pc = "loop"
    /\ k <= Len(tokens)
    /\ tokens[k][1] # "#"
    /\ ~punct_fullmatch(tokens[k])
    /\ LET r == other_branch(sentences, buffer, tokens[k])
       IN  sentences' = r.sentences /\ buffer' = r.buffer
    /\ k' = k + 1
    /\ UNCHANGED <<caption, text, tokens, pc, pvars>>

\* the trailing buffer, after the last token
TrailingFlush ==
    /\ pc = "loop"
    /\ k > Len(tokens)
    /\ sentences' = trailing_flush(sentences, buffer)
    /\ pc' = "prune"
    /\ UNCHANGED <<caption, text, tokens, k, buffer, pvars>>

\* the final prune and the return
FinalPrune ==
    /\ pc = "prune"
    /\ sentences' = final_prune(sentences)
    /\ pc' = "done"
    /\ UNCHANGED <<caption, text, tokens, k, buffer, pvars>>

TokNext ==
    \/ ReturnEmpty
    \/ Normalize
    \/ HashtagTok
    \/ PunctTok
    \/ OtherTok
    \/ TrailingFlush
    \/ FinalPrune

SpecTok == TokInit /\ [][TokNext]_vars

\* ------------------------------------------------------------------------
\* One run on an uploaded file
\* ------------------------------------------------------------------------
IDs == {"A", "B"}

\* caption cells of a raw export: read_csv gives an empty cell as NaN
RawCaptions == {NaN, <<".">>, <<"a">>, <<"a", ".", " ", "#", "b">>}

RawRows == [shortcode : IDs, caption : RawCaptions]

\* cells of an already tokenised file
TokContexts == {NaN, <<"c">>}

TokStatements == {<<"s">>, <<"t">>}

RECURSIVE SeqsUpTo(_, _)
SeqsUpTo(S, n) ==
    IF n = 0 THEN {<<>>}
    ELSE LET shorter == SeqsUpTo(S, n - 1)
         IN  shorter \cup
             {Append(s, x) : s \in {y \in shorter : Len(y) = n - 1}, x \in S}

\* a tokenised file numbers the statements of each ID from 1
TokenisedFiles ==
    LET cells == [ID : IDs, Context : TokContexts, Statement : TokStatements]
        number(f) ==
            [i \in 1..Len(f) |->
                [ID |-> f[i].ID, Context |-> f[i].Context,
                 SentenceID |-> 1 + Cardinality({j \in 1..(i - 1) : f[j].ID = f[i].ID}),
                 Statement |-> f[i].Statement]]
    IN  {number(f) : f \in SeqsUpTo(cells, MaxRows)}

PipeInit ==
    /\ TokIdle
    /\ \/ /\ program = "instagram_preprocess"
          /\ data_type = "Raw Instagram export"
          /\ statement_cut = "sentence"
          /\ context_cut = "whole"
          /\ df_in \in SeqsUpTo(RawRows, MaxRows)
       \/ /\ program = "streamlit_app"
          /\ statement_cut \in {"sentence", "post"}
          /\ context_cut \in {"whole", "rolling"}
          /\ \/ /\ data_type = "Raw Instagram export"
                /\ df_in \in SeqsUpTo(RawRows, MaxRows)
             \/ /\ data_type = "Tokenised (ID/Statement)"
                /\ df_in \in TokenisedFiles
    /\ rows = <<>>
    /\ ri = 1
    /\ df_proc = <<>>
    /\ columns = <<>>
    /\ ppc = "start"

\* transform_raw(df_in) / transform_raw_csv(raw_csv) is entered
StartTransform ==
    /\ ppc = "start"
    /\ data_type = "Raw Instagram export"
    /\ rows' = <<>>
    /\ ri' = 1
    /\ ppc' = "transform"
    /\ UNCHANGED <<program, data_type, statement_cut, context_cut, df_in,
                   df_proc, columns, tvars>>

\* one turn of "for _, r in df_raw.iterrows()"
TransformRow ==
    /\ ppc = "transform"
    /\ ri <= Len(df_in)
    /\ rows' = rows \o post_rows(df_in[ri])
    /\ ri' = ri + 1
    /\ UNCHANGED <<program, data_type, statement_cut, context_cut, df_in,
                   df_proc, columns, ppc, tvars>>

\* transform_raw: return pd.DataFrame(rows)
TransformRawReturn ==
    /\ ppc = "transform"
    /\ program = "streamlit_app"
    /\ ri > Len(df_in)
    /\ df_proc' = rows
    /\ columns' = DataFrameColumns(rows)
    /\ ppc' = "cut"
    /\ UNCHANGED <<program, data_type, statement_cut, context_cut, df_in,
                   rows, ri, tvars>>

\* transform_raw_csv: pd.DataFrame(records, columns=[...]).to_csv(out_csv)
TransformRawCsvWrite ==
    /\ ppc = "transform"
    /\ program = "instagram_preprocess"
    /\ ri > Len(df_in)
    /\ df_proc' = rows
    /\ columns' = CanonicalColumns
    /\ ppc' = "done"
    /\ UNCHANGED <<program, data_type, statement_cut, context_cut, df_in,
                   rows, ri, tvars>>

\* df_proc = df_in[list(expected)].copy()
SelectExpected ==
    /\ ppc = "start"
    /\ data_type = "Tokenised (ID/Statement)"
    /\ \E order \in ColumnOrders : columns' = order
    /\ df_proc' = df_in
    /\ ppc' = "cut"
    /\ UNCHANGED <<program, data_type, statement_cut, context_cut, df_in,
                   rows, ri, tvars>>

StatementCutSentence ==
    /\ ppc = "cut"
    /\ statement_cut = "sentence"
    /\ ppc' = "context"
    /\ UNCHANGED <<program, data_type, statement_cut, context_cut, df_in,
                   rows, ri, df_proc, columns, tvars>>

StatementCutPost ==
    /\ ppc = "cut"
    /\ statement_cut = "post"
    /\ columns # <<>>
    /\ df_proc' = groupby_agg(df_proc)
    /\ columns' = CanonicalColumns
    /\ ppc' = "context"
    /\ UNCHANGED <<program, data_type, statement_cut, context_cut, df_in,
                   rows, ri, tvars>>

\* groupby("ID") of a frame without columns raises KeyError
StatementCutKeyError ==
    /\ ppc = "cut"
    /\ statement_cut = "post"
    /\ columns = <<>>
    /\ ppc' = "error"
    /\ UNCHANGED <<program, data_type, statement_cut, context_cut, df_in,
                   rows, ri, df_proc, columns, tvars>>

ContextWhole ==
    /\ ppc = "context"
    /\ context_cut = "whole"
    /\ ppc' = "done"
    /\ UNCHANGED <<program, data_type, statement_cut, context_cut, df_in,
                   rows, ri, df_proc, columns, tvars>>

ContextRolling ==
    /\ ppc = "context"
    /\ context_cut = "rolling"
    /\ columns # <<>>
    /\ df_proc' = add_context_cols(df_proc)
    /\ ppc' = "done"
    /\ UNCHANGED <<program, data_type, statement_cut, context_cut, df_in,
                   rows, ri, columns, tvars>>

\* groupby("ID") of a frame without columns raises KeyError
ContextRollingKeyError ==
    /\ ppc = "context"
    /\ context_cut = "rolling"
    /\ columns = <<>>
    /\ ppc' = "error"
    /\ UNCHANGED <<program, data_type, statement_cut, context_cut, df_in,
                   rows, ri, df_proc, columns, tvars>>

PipeNext ==
    \/ StartTransform
    \/ TransformRow
    \/ TransformRawReturn
    \/ TransformRawCsvWrite
    \/ SelectExpected
    \/ StatementCutSentence
    \/ StatementCutPost
    \/ StatementCutKeyError
    \/ ContextWhole
    \/ ContextRolling
    \/ ContextRollingKeyError

SpecPipe == PipeInit /\ [][PipeNext]_vars

\* ------------------------------------------------------------------------
\* Properties of split_sentences (checked under SpecTok)
\* ------------------------------------------------------------------------
WordChars(s) == SelectSeq(s, IsWord)

StartsWithHash(s) == s # <<>> /\ s[1] = "#"

IsHashtag(s) == Len(s) >= 2 /\ s[1] = "#" /\ \A j \in 2..Len(s) : IsWord(s[j])

\* the word characters of s and the '#' that open a hashtag, in order
Skeleton(s) ==
    LET keep == {i \in 1..Len(s) :
                    \/ IsWord(s[i])
                    \/ s[i] = "#" /\ i < Len(s) /\ IsWord(s[i + 1])}
        order == SortedSeq(keep)
    IN  [n \in 1..Len(order) |-> s[order[n]]]

OnlySpaceAndPunct(s) == \A i \in 1..Len(s) : IsSpace(s[i]) \/ IsPunct(s[i])

\* C1: every Statement returned by split_sentences contains a word
\* character, and a caption that is empty or made only of whitespace and
\* '.', '!', '?' yields the empty sequence.
C1_StatementsHaveWord ==
    pc = "done" =>
        /\ \A i \in 1..Len(sentences) :
              \E j \in 1..Len(sentences[i]) : IsWord(sentences[i][j])
        /\ OnlySpaceAndPunct(caption) => sentences = <<>>

\* ". a": the punctuation-only piece is dropped, the word is kept
C1_Witness ==
    /\ pc = "done"
    /\ caption = <<".", " ", "a">>
    /\ sentences = << <<"a">> >>

\* C2: every hashtag token of the scan is a Statement of its own, equal to
\* the token; no Statement mixes a hashtag with prose; hashtags and the prose
\* around them come out in their left-to-right order.
C2_HashtagsStandAlone ==
    pc = "done" =>
        /\ SelectSeq(sentences, StartsWithHash) = SelectSeq(tokens, StartsWithHash)
        /\ \A i \in 1..Len(sentences) :
              IF StartsWithHash(sentences[i])
              THEN IsHashtag(sentences[i])
              ELSE \A j \in 1..Len(sentences[i]) : sentences[i][j] # "#"
        /\ Skeleton(Concat(sentences)) = Skeleton(text)

\* "Great day! #sunny #fun" gives "Great day!", "#sunny", "#fun"
C2_Witness ==
    /\ pc = "done"
    /\ caption = GreatDay
    /\ sentences = << <<"G","r","e","a","t"," ","d","a","y","!">>,
                      <<"#","s","u","n","n","y">>,
                      <<"#","f","u","n">> >>

\* C3: the tokens of the scan, concatenated in order, are the normalized
\* caption: every character is in exactly one token.
C3_TokensCoverText == pc \in {"loop", "prune", "done"} => Concat(tokens) = text

\* C4 as stated: split_sentences("Love this #vibe so much") is
\* "#vibe", "so much".
C4_AsStated ==
    (pc = "done" /\ caption = LoveThis) =>
        sentences = << <<"#","v","i","b","e">>, <<"s","o"," ","m","u","c","h">> >>

\* C4, amended: split_sentences("Love this #vibe so much") is "Love this",
\* "#vibe", "so much": the prose before the hashtag is flushed before it, and
\* the text after it, which has no terminal punctuation, is flushed at the
\* end of the scan.
C4_LoveThis ==
    (pc = "done" /\ caption = LoveThis) =>
        sentences = << <<"L","o","v","e"," ","t","h","i","s">>,
                       <<"#","v","i","b","e">>,
                       <<"s","o"," ","m","u","c","h">> >>

C4_Witness == pc = "done" /\ caption = LoveThis /\ Len(sentences) = 3

\* C10: the word characters of the emitted Statements, read in output order,
\* are the word characters of the caption in left-to-right order.
C10_WordContentConserved ==
    pc = "done" => WordChars(Concat(sentences)) = WordChars(caption)

\* a caption where the buffer is flushed at a hashtag, a punctuation run is
\* buffered and the trailing buffer is flushed
C10_Witness ==
    /\ pc = "done"
    /\ Len(sentences) >= 3
    /\ \E i \in 1..Len(tokens) : punct_fullmatch(tokens[i])
    /\ \E i \in 2..(Len(tokens) - 1) : StartsWithHash(tokens[i])

\* ------------------------------------------------------------------------
\* Properties of the transformers and of the cuts (checked under SpecPipe)
\* ------------------------------------------------------------------------
IsRaw == data_type = "Raw Instagram export"

\* the Statements the transformer's tokenization yields for post p
PostStatements(p) == split_sentences(str(df_in[p].caption))

RECURSIVE RowsBefore(_)
RowsBefore(p) ==
    IF p <= 1 THEN 0 ELSE RowsBefore(p - 1) + Len(PostStatements(p - 1))

\* C5: the posts are emitted in input order; a post whose tokenization
\* yields N Statements gives exactly N consecutive rows with Sentence ID
\* 1..N, each with the post's ID and its original caption as Context; no
\* rows for N = 0; the row count is the sum of N.  (Stated of the rows
\* emitted for the ri - 1 posts processed so far, hence of the whole
\* frame once the loop has ended.)
C5_RowsPerPost ==
    (IsRaw /\ ppc # "start") =>
        /\ Len(rows) = RowsBefore(ri)
        /\ \A p \in 1..(ri - 1) :
              \A j \in 1..Len(PostStatements(p)) :
                  LET r == rows[RowsBefore(p) + j]
                  IN  /\ r.ID = df_in[p].shortcode
                      /\ r.Context = df_in[p].caption
                      /\ r.SentenceID = j
                      /\ r.Statement = PostStatements(p)[j]
        /\ ppc # "transform" => ri = Len(df_in) + 1
        /\ ppc = "cut" => df_proc = rows

\* three posts transformed, one of them without a Statement and one with two
C5_Witness ==
    /\ IsRaw
    /\ ppc = "cut"
    /\ Len(df_in) = 3
    /\ \E p \in 1..3 : Len(PostStatements(p)) = 0
    /\ \E p \in 1..3 : Len(PostStatements(p)) = 2

\* the frame the context cut is applied to
BeforeCuts == IF IsRaw THEN rows ELSE df_in

BeforeContext ==
    IF statement_cut = "post" THEN groupby_agg(BeforeCuts) ELSE BeforeCuts

\* the Statements of the rows 1..i of df that have the ID of row i
OwnStatementsUpTo(df, i) ==
    Statements(group_rows(SubSeq(df, 1, i), df[i].ID))

\* C6: under the rolling context cut every row's Context is the space-join
\* of the Statements of the rows of its ID from the first up to itself, in
\* that ID's row order; ID, Sentence ID and Statement are unchanged.
C6_RollingPerID ==
    (ppc = "done" /\ program = "streamlit_app" /\ context_cut = "rolling") =>
        /\ Len(df_proc) = Len(BeforeContext)
        /\ \A i \in 1..Len(df_proc) :
              /\ df_proc[i].ID = BeforeContext[i].ID
              /\ df_proc[i].SentenceID = BeforeContext[i].SentenceID
              /\ df_proc[i].Statement = BeforeContext[i].Statement
              /\ df_proc[i].Context = join(OwnStatementsUpTo(BeforeContext, i))

\* the index of the first row of df with this ID
FirstIndex(df, id) == SetMin({i \in 1..Len(df) : df[i].ID = id})

\* C7: under the post cut there is one row per distinct ID, in order of
\* first encounter, with the first Context seen for the ID, the space-join
\* of the ID's Statements in original order, and Sentence ID 1.
C7_PostAggregation ==
    (ppc = "context" /\ statement_cut = "post") =>
        LET src == BeforeCuts
        IN  /\ Len(df_proc) = Cardinality({src[i].ID : i \in 1..Len(src)})
            /\ \A g \in 1..Len(df_proc) :
                  /\ \E i \in 1..Len(src) : src[i].ID = df_proc[g].ID
                  /\ \A h \in 1..(g - 1) :
                        FirstIndex(src, df_proc[h].ID) < FirstIndex(src, df_proc[g].ID)
                  /\ df_proc[g].Context = src[FirstIndex(src, df_proc[g].ID)].Context
                  /\ df_proc[g].Statement =
                        join(Statements(group_rows(src, df_proc[g].ID)))
                  /\ df_proc[g].SentenceID = 1

\* C8: a post whose caption is missing contributes no row.
C8_MissingCaptionNoRows ==
    IsRaw => \A i \in 1..Len(rows) : rows[i].Context # NaN

\* C9: whatever the input type, the statement cut and the context cut, the
\* final frame has the columns ID, Context, Sentence ID, Statement, in that
\* order.
C9_FourColumns == ppc = "done" => columns = CanonicalColumns

====
